---- MODULE Spec2Model ----
(***************************************************************************)
(* Model of the response-dispatch synthesis of pkg/codegen/                *)
(* template_helpers.go: genResponseUnmarshal, buildUnmarshalCase and       *)
(* getConditionOfResponseName.                                             *)
(*                                                                         *)
(* A Go string is a sequence of one-character strings, so that the code's  *)
(* formatting, its map keys and the byte-wise order of sort.Strings are    *)
(* computed as the code computes them.                                     *)
(***************************************************************************)
EXTENDS Integers, Sequences, FiniteSets

VARIABLES
    responses,             \* op.Spec.Responses: response name -> response reference
    typeDefinitions,       \* the result of op.GetResponseTypeDefinitions()
    idx,                   \* position of the range loop over typeDefinitions
    handledCaseClauses,    \* map: case key -> case clause
    unhandledCaseClauses,  \* map: case key -> case clause
    result,                \* the string genResponseUnmarshal returns
    pc,                    \* "loop" while in the range loop, "done" once returned
    condResponseName,      \* argument of a call of getConditionOfResponseName
    statusCode,            \* the run-time value of rsp.StatusCode the condition is read on
    condition              \* the string getConditionOfResponseName returned

vars == <<responses, typeDefinitions, idx, handledCaseClauses, unhandledCaseClauses,
          result, pc, condResponseName, statusCode, condition>>

----------------------------------------------------------------------------
(* Strings *)

\* The printable ASCII characters in code order: 32 (space) to 95 (_), and
\* 97 (a) to 126 (~). No string of the program holds character 96.
AsciiLow == <<" ", "!", "\"", "#", "$", "%", "&", "'", "(", ")", "*", "+", ",", "-", ".", "/", "0", "1", "2", "3", "4", "5", "6", "7", "8", "9", ":", ";", "<", "=", ">", "?", "@", "A", "B", "C", "D", "E", "F", "G", "H", "I", "J", "K", "L", "M", "N", "O", "P", "Q", "R", "S", "T", "U", "V", "W", "X", "Y", "Z", "[", "\\", "]", "^", "_">>
AsciiHigh == <<"a", "b", "c", "d", "e", "f", "g", "h", "i", "j", "k", "l", "m", "n", "o", "p", "q", "r", "s", "t", "u", "v", "w", "x", "y", "z", "{", "|", "}", "~">>

\* The byte value of a character; "\n" is 10.
Ord == [c \in {AsciiLow[i] : i \in 1..Len(AsciiLow)}
              \cup {AsciiHigh[i] : i \in 1..Len(AsciiHigh)} \cup {"\n"} |->
          IF c = "\n" THEN 10
          ELSE IF \E i \in 1..Len(AsciiLow) : AsciiLow[i] = c
               THEN 31 + (CHOOSE i \in 1..Len(AsciiLow) : AsciiLow[i] = c)
               ELSE 96 + (CHOOSE i \in 1..Len(AsciiHigh) : AsciiHigh[i] = c)]

\* The order a < b of Go strings: byte-wise lexicographic, a proper prefix is smaller.
RECURSIVE StrLessFrom(_, _, _)
StrLessFrom(a, b, i) ==
    IF i > Len(b) THEN FALSE
    ELSE IF i > Len(a) THEN TRUE
    ELSE IF a[i] = b[i] THEN StrLessFrom(a, b, i + 1)
    ELSE Ord[a[i]] < Ord[b[i]]

StrLess(a, b) == StrLessFrom(a, b, 1)

\* s[from:to] of Go, on 1-based positions from..to inclusive.
Slice(s, from, to) == SubSeq(s, from, to)

\* strings.HasPrefix restricted to position i: sub occurs in s at position i.
OccursAt(s, sub, i) ==
    /\ i >= 1
    /\ i + Len(sub) - 1 <= Len(s)
    /\ \A j \in 1..Len(sub) : s[i + j - 1] = sub[j]

HasPrefix(s, prefix) == OccursAt(s, prefix, 1)

\* strings.Contains
Contains(s, sub) == \E i \in 1..(Len(s) - Len(sub) + 1) : OccursAt(s, sub, i)

\* The keys of a set of strings in increasing order (sort.Strings).
RECURSIVE SortStrings(_)
SortStrings(S) ==
    IF S = {} THEN <<>>
    ELSE LET least == CHOOSE x \in S : \A y \in S : x = y \/ StrLess(x, y)
         IN  <<least>> \o SortStrings(S \ {least})

SortedStringKeys(dict) == SortStrings(DOMAIN dict)

StringInArray(str, array) == \E i \in 1..Len(array) : array[i] = str

----------------------------------------------------------------------------
(* Constants of the package *)

\* prefixMostSpecific, prefixLessSpecific, prefixLeastSpecific = "3", "6", "9"
prefixMostSpecific == <<"3">>
prefixLessSpecific == <<"6">>
prefixLeastSpecific == <<"9">>

MIMEApplicationJSON == <<"a", "p", "p", "l", "i", "c", "a", "t", "i", "o", "n", "/", "j", "s", "o", "n">>
MIMETextXJSON == <<"t", "e", "x", "t", "/", "x", "-", "j", "s", "o", "n">>
MIMEApplicationYAML == <<"a", "p", "p", "l", "i", "c", "a", "t", "i", "o", "n", "/", "y", "a", "m", "l">>
MIMEApplicationXYAML == <<"a", "p", "p", "l", "i", "c", "a", "t", "i", "o", "n", "/", "x", "-", "y", "a", "m", "l">>
MIMETextYAML == <<"t", "e", "x", "t", "/", "y", "a", "m", "l">>
MIMETextXYAML == <<"t", "e", "x", "t", "/", "x", "-", "y", "a", "m", "l">>
MIMEApplicationXML == <<"a", "p", "p", "l", "i", "c", "a", "t", "i", "o", "n", "/", "x", "m", "l">>
MIMETextXML == <<"t", "e", "x", "t", "/", "x", "m", "l">>
MIMEOctetStream == <<"a", "p", "p", "l", "i", "c", "a", "t", "i", "o", "n", "/", "o", "c", "t", "e", "t", "-", "s", "t", "r", "e", "a", "m">>
MIMETextPlain == <<"t", "e", "x", "t", "/", "p", "l", "a", "i", "n">>

contentTypesJSON == <<MIMEApplicationJSON, MIMETextXJSON>>
contentTypesYAML == <<MIMEApplicationYAML, MIMEApplicationXYAML, MIMETextYAML, MIMETextXYAML>>
contentTypesXML == <<MIMEApplicationXML, MIMETextXML>>

\* echo.HeaderContentType is "Content-Type"; the status code is read from
\* "rsp.StatusCode"; a type name "interface{}" is the untyped sentinel.
HeaderContentType == <<"C", "o", "n", "t", "e", "n", "t", "-", "T", "y", "p", "e">>
statusCodeVar == <<"r", "s", "p", ".", "S", "t", "a", "t", "u", "s", "C", "o", "d", "e">>
untypedSentinel == <<"i", "n", "t", "e", "r", "f", "a", "c", "e", "{", "}">>

json == <<"j", "s", "o", "n">>
yaml == <<"y", "a", "m", "l">>
xml == <<"x", "m", "l">>

----------------------------------------------------------------------------
(* getConditionOfResponseName *)

\* "1XX", "2XX", "3XX", "4XX", "5XX" and "default"
rangeNames == <<<<"1", "X", "X">>, <<"2", "X", "X">>, <<"3", "X", "X">>, <<"4", "X", "X">>, <<"5", "X", "X">>>>
nameDefault == <<"d", "e", "f", "a", "u", "l", "t">>

\* A variant that compares the status code of a range wildcard with its
\* leading digit without dividing by 100.
getConditionWithoutDivision(varName, responseName) ==
    IF responseName = nameDefault THEN <<"t", "r", "u", "e">>
    ELSE IF StringInArray(responseName, rangeNames)
         THEN varName \o <<" ", "=", "=", " ">> \o Slice(responseName, 1, 1)
         ELSE varName \o <<" ", "=", "=", " ">> \o responseName

\* "true", fmt.Sprintf("%s / 100 == %s", statusCodeVar, responseName[:1]) or
\* fmt.Sprintf("%s == %s", statusCodeVar, responseName)
getConditionOfResponseName(varName, responseName) ==
    IF responseName = nameDefault THEN <<"t", "r", "u", "e">>
    ELSE IF StringInArray(responseName, rangeNames)
         THEN varName \o <<" ", "/", " ", "1", "0", "0", " ", "=", "=", " ">> \o Slice(responseName, 1, 1)
         ELSE varName \o <<" ", "=", "=", " ">> \o responseName

----------------------------------------------------------------------------
(* buildUnmarshalCase *)

\* A variant that keys a handled clause by the content type of the type
\* definition instead of the decoder.
buildUnmarshalCaseKeyPerContentType(typeDefinition, contentType) ==
    prefixLeastSpecific \o <<".">> \o typeDefinition.ContentTypeName \o <<".">>
      \o typeDefinition.ResponseName

\* fmt.Sprintf("%s.%s.%s", prefixLeastSpecific, contentType, typeDefinition.ResponseName)
buildUnmarshalCaseKey(typeDefinition, contentType) ==
    prefixLeastSpecific \o <<".">> \o contentType \o <<".">> \o typeDefinition.ResponseName

\* fmt.Sprintf("case strings.Contains(rsp.Header.Get(\"%s\"), \"%s\") && %s:\n%s\n",
\*             echo.HeaderContentType, contentType, caseClauseKey, caseAction)
buildUnmarshalCaseClause(typeDefinition, caseAction, contentType) ==
    LET caseClauseKey == getConditionOfResponseName(statusCodeVar, typeDefinition.ResponseName)
    IN  <<"c", "a", "s", "e", " ", "s", "t", "r", "i", "n", "g", "s", ".", "C", "o", "n", "t", "a", "i", "n", "s", "(", "r", "s", "p", ".", "H", "e", "a", "d", "e", "r", ".", "G", "e", "t", "(", "\"">> \o HeaderContentType \o <<"\"", ")", ",", " ", "\"">>
          \o contentType \o <<"\"", ")", " ", "&", "&", " ">> \o caseClauseKey \o <<":", "\n">> \o caseAction \o <<"\n">>

\* The decode step of a handled clause (lines 154-160, 170-176, 185-191):
\* "var dest %s\nif err := <decoder>.Unmarshal(bodyBytes, &dest); err != nil { \n
\*  return nil, err \n}\nresponse.%s = &dest" of Schema.TypeDecl() and TypeName.
unmarshalAction(typeDefinition, decoder) ==
    <<"v", "a", "r", " ", "d", "e", "s", "t", " ">> \o typeDefinition.TypeDecl \o <<"\n", "i", "f", " ", "e", "r", "r", " ", ":", "=", " ">> \o decoder
      \o <<".", "U", "n", "m", "a", "r", "s", "h", "a", "l", "(", "b", "o", "d", "y", "B", "y", "t", "e", "s", ",", " ", "&", "d", "e", "s", "t", ")", ";", " ", "e", "r", "r", " ", "!", "=", " ", "n", "i", "l", " ", "{", " ", "\n", " ", "r", "e", "t", "u", "r", "n", " ", "n", "i", "l", ",", " ", "e", "r", "r", " ", "\n", "}", "\n", "r", "e", "s", "p", "o", "n", "s", "e", ".">>
      \o typeDefinition.TypeName \o <<" ", "=", " ", "&", "d", "e", "s", "t">>

\* "case " + getConditionOfResponseName("rsp.StatusCode", ResponseName) + ":"
\* of an unhandled clause, its map key prefixLeastSpecific+caseClauseKey, and
\* the clause fmt.Sprintf("%s\n%s\n", caseClauseKey, caseAction).
unhandledClauseKey(responseName) ==
    <<"c", "a", "s", "e", " ">> \o getConditionOfResponseName(statusCodeVar, responseName) \o <<":">>

\* A variant that keys every unhandled clause by the prefix alone.
unhandledMapKeyWithoutCondition(responseName) == prefixLeastSpecific

unhandledMapKey(responseName) == prefixLeastSpecific \o unhandledClauseKey(responseName)

unhandledClause(responseName, caseAction) ==
    unhandledClauseKey(responseName) \o <<"\n">> \o caseAction \o <<"\n">>

\* "break // No content-type"
noContentAction == <<"b", "r", "e", "a", "k", " ", "/", "/", " ", "N", "o", " ", "c", "o", "n", "t", "e", "n", "t", "-", "t", "y", "p", "e">>

\* fmt.Sprintf("// Content-type (%s) unsupported", contentTypeName)
unsupportedAction(contentTypeName) ==
    <<"/", "/", " ", "C", "o", "n", "t", "e", "n", "t", "-", "t", "y", "p", "e", " ", "(">> \o contentTypeName \o <<")", " ", "u", "n", "s", "u", "p", "p", "o", "r", "t", "e", "d">>

----------------------------------------------------------------------------
(* genResponseUnmarshal *)

EmptyMap == [k \in {} |-> <<>>]

MapPut(dict, key, value) ==
    [k \in DOMAIN dict \cup {key} |-> IF k = key THEN value ELSE dict[k]]

\* SortedContentKeys: the content types of a response in increasing order.
SortedContentKeys(content) == SortStrings(content)

\* The decoder of a content type: "json", "yaml", "xml", or "" for none.
decoderOf(contentTypeName) ==
    IF StringInArray(contentTypeName, contentTypesJSON) THEN json
    ELSE IF StringInArray(contentTypeName, contentTypesYAML) THEN yaml
    ELSE IF StringInArray(contentTypeName, contentTypesXML) THEN xml
    ELSE <<>>

\* A variant that never takes a type for the untyped sentinel.
isUntypedNever(typeDefinition) == FALSE

\* The sentinel test of lines 141-144.
isUntyped(typeDefinition) == typeDefinition.TypeName = untypedSentinel

\* The re-check of lines 151, 168, 183.
isOwnContentType(typeDefinition, contentTypeName) ==
    typeDefinition.ContentTypeName = contentTypeName

\* One iteration of the loop over sortedContentKeys (lines 138-202).
contentStep(maps, typeDefinition, contentTypeName) ==
    IF isUntyped(typeDefinition) THEN maps
    ELSE IF decoderOf(contentTypeName) # <<>>
    THEN IF isOwnContentType(typeDefinition, contentTypeName)
         THEN LET decoder == decoderOf(contentTypeName)
                  caseAction == unmarshalAction(typeDefinition, decoder)
              IN  [maps EXCEPT !.handled =
                      MapPut(@, buildUnmarshalCaseKey(typeDefinition, decoder),
                             buildUnmarshalCaseClause(typeDefinition, caseAction, decoder))]
         ELSE maps
    ELSE [maps EXCEPT !.unhandled =
             MapPut(@, unhandledMapKey(typeDefinition.ResponseName),
                    unhandledClause(typeDefinition.ResponseName,
                                    unsupportedAction(contentTypeName)))]

RECURSIVE contentLoop(_, _, _)
contentLoop(maps, typeDefinition, sortedContentKeys) ==
    IF sortedContentKeys = <<>> THEN maps
    ELSE contentLoop(contentStep(maps, typeDefinition, Head(sortedContentKeys)),
                     typeDefinition, Tail(sortedContentKeys))

\* The clause a response without content gets (lines 129-134).
noContentStep(maps, typeDefinition) ==
    [maps EXCEPT !.unhandled =
        MapPut(@, unhandledMapKey(typeDefinition.ResponseName),
               unhandledClause(typeDefinition.ResponseName, noContentAction))]

\* One iteration of the loop over typeDefinitions (lines 115-203).
typeDefinitionStep(resps, maps, typeDefinition) ==
    LET responseRef == resps[typeDefinition.ResponseName]
    IN  IF ~responseRef.ok THEN maps
        ELSE IF responseRef.nilValue THEN maps
        ELSE IF responseRef.Content = {} THEN noContentStep(maps, typeDefinition)
        ELSE contentLoop(maps, typeDefinition, SortedContentKeys(responseRef.Content))

\* fmt.Fprintf(buffer, "%s\n", clause) for the clauses of the keys, in order.
RECURSIVE writeClauses(_, _)
writeClauses(dict, keys) ==
    IF keys = <<>> THEN <<>>
    ELSE dict[Head(keys)] \o <<"\n">> \o writeClauses(dict, Tail(keys))

\* A variant that never finds the switch empty.
switchIsEmptyNever(handled, unhandled) == FALSE

\* Whether the switch would be empty (line 205).
switchIsEmpty(handled, unhandled) ==
    Cardinality(DOMAIN handled) + Cardinality(DOMAIN unhandled) = 0

\* The switch statement of lines 213-224: "switch {\n", the handled clauses in
\* the order of their keys, the unhandled ones in the order of theirs, "}\n".
buildSwitch(handled, unhandled) ==
    <<"s", "w", "i", "t", "c", "h", " ", "{", "\n">>
      \o writeClauses(handled, SortedStringKeys(handled))
      \o writeClauses(unhandled, SortedStringKeys(unhandled))
      \o <<"}", "\n">>

RECURSIVE typeDefinitionLoop(_, _, _)
typeDefinitionLoop(resps, maps, tds) ==
    IF tds = <<>> THEN maps
    ELSE typeDefinitionLoop(resps, typeDefinitionStep(resps, maps, Head(tds)), Tail(tds))

\* genResponseUnmarshal as a function of the operation's responses and its
\* type definitions.
genResponseUnmarshal(resps, tds) ==
    IF Len(tds) = 0 THEN <<>>
    ELSE LET maps == typeDefinitionLoop(resps, [handled |-> EmptyMap, unhandled |-> EmptyMap], tds)
         IN  IF switchIsEmpty(maps.handled, maps.unhandled) THEN <<>>
             ELSE buildSwitch(maps.handled, maps.unhandled)

----------------------------------------------------------------------------
(* Inputs *)

name204 == <<"2", "0", "4">>
name2XX == <<"2", "X", "X">>
typeFoo == <<"F", "o", "o">>
typeBar == <<"B", "a", "r">>

\* The largest number of type definitions of an operation.
MaxRecords == 2

ResponseNames == {name204, name2XX, nameDefault}

\* A response reference: missing from the map, present with a nil Value, or
\* present with the content types of Value.Content.
absentResponse == [ok |-> FALSE, nilValue |-> FALSE, Content |-> {}]
nilResponse == [ok |-> TRUE, nilValue |-> TRUE, Content |-> {}]
responseWith(content) == [ok |-> TRUE, nilValue |-> FALSE, Content |-> content]

ResponseRefsOf(contentSets) ==
    {absentResponse, nilResponse} \cup {responseWith(c) : c \in contentSets}

TypeDefinitionsOf(names, contentTypeNames, typeNames) ==
    {[ResponseName |-> n, ContentTypeName |-> c, TypeName |-> t, TypeDecl |-> t] :
        n \in names, c \in contentTypeNames, t \in typeNames}

SeqsUpTo(S, n) == UNION {[1..k -> S] : k \in 0..n}

namesOf(tds) == {tds[i].ResponseName : i \in 1..Len(tds)}

\* The state at the entry of genResponseUnmarshal. A response that no type
\* definition names is never looked up, so it is left out of the map.
InitOf(tds, refs, maxRecords) ==
    /\ typeDefinitions \in SeqsUpTo(tds, maxRecords)
    /\ responses \in [ResponseNames -> refs]
    /\ \A n \in ResponseNames \ namesOf(typeDefinitions) : responses[n] = absentResponse
    /\ idx = 1
    /\ handledCaseClauses = EmptyMap
    /\ unhandledCaseClauses = EmptyMap
    /\ result = <<>>
    /\ pc = "loop"
    /\ condResponseName = <<>>
    /\ statusCode = 0
    /\ condition = <<>>

\* Operations with an exact code and its range: content types of two
\* families, two of one family, and unsupported ones; typed and untyped results.
InitFamilies ==
    InitOf(TypeDefinitionsOf({name204, name2XX},
                             {MIMEApplicationJSON, MIMETextXJSON, MIMETextYAML},
                             {typeFoo, untypedSentinel}),
           ResponseRefsOf({ {}, {MIMEApplicationJSON, MIMETextXJSON},
                            {MIMEApplicationJSON, MIMETextYAML},
                            {MIMEOctetStream, MIMETextPlain},
                            {MIMETextXJSON, MIMEOctetStream} }),
           MaxRecords)

\* Type definitions and responses of an exact code, its range and "default",
\* each response without content, with JSON, with XML or with an unsupported
\* content type.
KeyTypeDefinitions ==
    TypeDefinitionsOf(ResponseNames, {MIMEApplicationJSON, MIMEApplicationXML}, {typeFoo})

KeyResponseRefs ==
    ResponseRefsOf({ {}, {MIMEApplicationJSON}, {MIMEApplicationXML}, {MIMEOctetStream} })

InitKeys == InitOf(KeyTypeDefinitions, KeyResponseRefs, MaxRecords)

Init == InitFamilies \/ InitKeys

\* As InitKeys, with up to one type definition for each response key.
InitPrecedence == InitOf(KeyTypeDefinitions, KeyResponseRefs, Cardinality(ResponseNames))

\* Operations whose type definitions differ in their types.
InitOrder ==
    InitOf(TypeDefinitionsOf({name2XX, nameDefault},
                             {MIMEApplicationJSON, MIMETextXJSON},
                             {typeFoo, typeBar}),
           ResponseRefsOf({ {}, {MIMEApplicationJSON, MIMETextXJSON},
                            {MIMEApplicationJSON, MIMEOctetStream},
                            {MIMEOctetStream, MIMETextPlain} }),
           MaxRecords)

----------------------------------------------------------------------------
(* Steps of genResponseUnmarshal *)

inputs == <<responses, typeDefinitions>>
condVars == <<condResponseName, statusCode, condition>>

\* Lines 107-110: no types, return "".
ReturnNoTypes ==
    /\ pc = "loop"
    /\ Len(typeDefinitions) = 0
    /\ result' = <<>>
    /\ pc' = "done"
    /\ UNCHANGED <<inputs, idx, handledCaseClauses, unhandledCaseClauses, condVars>>

InLoop == pc = "loop" /\ idx <= Len(typeDefinitions)

applyStep ==
    LET maps == typeDefinitionStep(responses,
                    [handled |-> handledCaseClauses, unhandled |-> unhandledCaseClauses],
                    typeDefinitions[idx])
    IN  /\ handledCaseClauses' = maps.handled
        /\ unhandledCaseClauses' = maps.unhandled
        /\ idx' = idx + 1
        /\ UNCHANGED <<inputs, result, pc, condVars>>

\* Lines 117-120: the response name is not in the map, continue.
SkipMissingResponse ==
    /\ InLoop
    /\ ~responses[typeDefinitions[idx].ResponseName].ok
    /\ applyStep

\* Lines 123-126: the response has a nil value, continue.
SkipNilValue ==
    /\ InLoop
    /\ responses[typeDefinitions[idx].ResponseName].ok
    /\ responses[typeDefinitions[idx].ResponseName].nilValue
    /\ applyStep

\* Lines 129-134: no content type, an unhandled clause, continue.
NoContentClause ==
    /\ InLoop
    /\ responses[typeDefinitions[idx].ResponseName].ok
    /\ ~responses[typeDefinitions[idx].ResponseName].nilValue
    /\ responses[typeDefinitions[idx].ResponseName].Content = {}
    /\ applyStep

\* Lines 137-202: the loop over the content types of the response.
ContentClauses ==
    /\ InLoop
    /\ responses[typeDefinitions[idx].ResponseName].ok
    /\ ~responses[typeDefinitions[idx].ResponseName].nilValue
    /\ responses[typeDefinitions[idx].ResponseName].Content # {}
    /\ applyStep

AfterLoop == pc = "loop" /\ Len(typeDefinitions) > 0 /\ idx > Len(typeDefinitions)

\* Lines 205-208: the switch would be empty, return "".
ReturnEmptySwitch ==
    /\ AfterLoop
    /\ switchIsEmpty(handledCaseClauses, unhandledCaseClauses)
    /\ result' = <<>>
    /\ pc' = "done"
    /\ UNCHANGED <<inputs, idx, handledCaseClauses, unhandledCaseClauses, condVars>>

\* Lines 213-224: write the switch and return it.
ReturnSwitch ==
    /\ AfterLoop
    /\ ~switchIsEmpty(handledCaseClauses, unhandledCaseClauses)
    /\ result' = buildSwitch(handledCaseClauses, unhandledCaseClauses)
    /\ pc' = "done"
    /\ UNCHANGED <<inputs, idx, handledCaseClauses, unhandledCaseClauses, condVars>>

Next ==
    \/ ReturnNoTypes
    \/ SkipMissingResponse
    \/ SkipNilValue
    \/ NoContentClause
    \/ ContentClauses
    \/ ReturnEmptySwitch
    \/ ReturnSwitch

Spec == Init /\ [][Next]_vars

SpecPrecedence == InitPrecedence /\ [][Next]_vars

SpecOrder == InitOrder /\ [][Next]_vars

----------------------------------------------------------------------------
(* Reading the generated fragment *)

\* The first position of s from i on at which sub occurs (0 if there is none).
IndexFrom(s, sub, i) ==
    LET hits == {j \in i..Len(s) : OccursAt(s, sub, j)}
    IN  IF hits = {} THEN 0 ELSE CHOOSE p \in hits : \A q \in hits : p <= q

\* One clause text "case <cond>:\n<body>" as its condition and its body.
ParseClause(text) ==
    LET colon == IndexFrom(text, <<":", "\n">>, 1)
    IN  [cond |-> SubSeq(text, 6, colon - 1), body |-> SubSeq(text, colon + 2, Len(text))]

\* The clauses of out from position i on: each clause is followed by an
\* empty line, and "}\n" ends the switch.
RECURSIVE ParseFrom(_, _)
ParseFrom(out, i) ==
    LET end == IndexFrom(out, <<"\n", "\n">>, i)
    IN  IF end = 0 \/ ~OccursAt(out, <<"c", "a", "s", "e", " ">>, i) THEN <<>>
        ELSE <<ParseClause(SubSeq(out, i, end))>> \o ParseFrom(out, end + 2)

\* The clauses of a fragment "switch {\n" (clause "\n")* "}\n", in order.
ParseClauses(out) == ParseFrom(out, Len(<<"s", "w", "i", "t", "c", "h", " ", "{", "\n">>) + 1)

Clauses == ParseClauses(result)

Decoders == {json, yaml, xml}

containsCall == <<"s", "t", "r", "i", "n", "g", "s", ".", "C", "o", "n", "t", "a", "i", "n", "s", "(", "r", "s", "p", ".", "H", "e", "a", "d", "e", "r", ".", "G", "e", "t", "(", "\"">> \o HeaderContentType \o <<"\"", ")", ",", " ", "\"">>

\* A condition that tests the Content-Type header for a decoder's name.
IsHandledCond(cond) ==
    \E d \in Decoders : HasPrefix(cond, containsCall \o d \o <<"\"", ")", " ", "&", "&", " ">>)

DecoderOfCond(cond) ==
    CHOOSE d \in Decoders : HasPrefix(cond, containsCall \o d \o <<"\"", ")", " ", "&", "&", " ">>)

\* The status-code test of a condition.
StatusCondOf(cond) ==
    IF IsHandledCond(cond)
    THEN SubSeq(cond, Len(containsCall) + Len(DecoderOfCond(cond)) + 7, Len(cond))
    ELSE cond

IsDigits(s) == Len(s) > 0 /\ \A i \in 1..Len(s) : Ord[s[i]] \in 48..57

RECURSIVE ParseInt(_)
ParseInt(s) ==
    IF s = <<>> THEN 0 ELSE 10 * ParseInt(SubSeq(s, 1, Len(s) - 1)) + (Ord[s[Len(s)]] - 48)

rangeTest == statusCodeVar \o <<" ", "/", " ", "1", "0", "0", " ", "=", "=", " ">>
exactTest == statusCodeVar \o <<" ", "=", "=", " ">>

IsDefaultCond(sc) == sc = <<"t", "r", "u", "e">>
IsRangeCond(sc) == HasPrefix(sc, rangeTest) /\ IsDigits(SubSeq(sc, Len(rangeTest) + 1, Len(sc)))
IsExactCond(sc) == HasPrefix(sc, exactTest) /\ IsDigits(SubSeq(sc, Len(exactTest) + 1, Len(sc)))
RangeDigit(sc) == ParseInt(SubSeq(sc, Len(rangeTest) + 1, Len(sc)))
ExactCode(sc) == ParseInt(SubSeq(sc, Len(exactTest) + 1, Len(sc)))

\* The value of a status-code test of the generated Go code when
\* rsp.StatusCode is s.
EvalStatusCond(sc, s) ==
    IF IsDefaultCond(sc) THEN TRUE
    ELSE IF IsRangeCond(sc) THEN s \div 100 = RangeDigit(sc)
    ELSE IF IsExactCond(sc) THEN s = ExactCode(sc)
    ELSE FALSE

\* The value of a clause condition for status code s and Content-Type header.
EvalCond(cond, s, header) ==
    IF IsHandledCond(cond)
    THEN Contains(header, DecoderOfCond(cond)) /\ EvalStatusCond(StatusCondOf(cond), s)
    ELSE EvalStatusCond(cond, s)

\* The response key a status-code test stands for.
KeyOfStatusCond(sc) ==
    IF IsDefaultCond(sc) THEN nameDefault
    ELSE IF IsRangeCond(sc) THEN SubSeq(sc, Len(rangeTest) + 1, Len(sc)) \o <<"X", "X">>
    ELSE SubSeq(sc, Len(exactTest) + 1, Len(sc))

KeyOfClause(c) == KeyOfStatusCond(StatusCondOf(c.cond))

\* A clause decodes when its body calls an Unmarshal.
IsDecodeClause(c) == Contains(c.body, <<".", "U", "n", "m", "a", "r", "s", "h", "a", "l", "(">>)

Done == pc = "done"

----------------------------------------------------------------------------
(* Facts about the inputs that the claims speak of *)

HasValue(n) == responses[n].ok /\ ~responses[n].nilValue

InFamily(contentTypeName) ==
    \/ StringInArray(contentTypeName, contentTypesJSON)
    \/ StringInArray(contentTypeName, contentTypesYAML)
    \/ StringInArray(contentTypeName, contentTypesXML)

FamilyName(contentTypeName) ==
    IF StringInArray(contentTypeName, contentTypesJSON) THEN json
    ELSE IF StringInArray(contentTypeName, contentTypesYAML) THEN yaml
    ELSE xml

\* The type definition is for a content type of its response that belongs to
\* a family, and its type is not the untyped sentinel.
Decodable(td) ==
    /\ HasValue(td.ResponseName)
    /\ td.ContentTypeName \in responses[td.ResponseName].Content
    /\ InFamily(td.ContentTypeName)
    /\ td.TypeName # untypedSentinel

Records == {typeDefinitions[i] : i \in 1..Len(typeDefinitions)}

----------------------------------------------------------------------------
(* C1 *)

\* C1: when the response keys include an exact code, the range wildcard that
\* covers it and "default", every clause of the exact code comes before every
\* clause of the range wildcard, and every clause of the range wildcard
\* before every clause of "default", whatever the order of the records.
ExactBeforeRangeBeforeDefault ==
    (Done /\ \A n \in ResponseNames : HasValue(n)) =>
        LET cs == Clauses
        IN  \A i, j \in 1..Len(cs) :
                LET a == StatusCondOf(cs[i].cond)
                    b == StatusCondOf(cs[j].cond)
                IN  /\ (IsExactCond(a) /\ IsRangeCond(b)
                          /\ ExactCode(a) \div 100 = RangeDigit(b)) => i < j
                    /\ (IsRangeCond(a) /\ IsDefaultCond(b)) => i < j

----------------------------------------------------------------------------
(* C2 *)

\* C2: a clause whose status condition is the literal true is the last clause
\* of the switch: no clause with another status condition follows it.
DefaultClauseIsLast ==
    Done =>
        LET cs == Clauses
        IN  \A i, j \in 1..Len(cs) :
                (IsDefaultCond(StatusCondOf(cs[i].cond)) /\ i < j) =>
                    IsDefaultCond(StatusCondOf(cs[j].cond))

----------------------------------------------------------------------------
(* C3 *)

\* C3: with an exact code without content and a range wildcard covering it
\* with content types of the JSON, YAML or XML family, the clause of the exact
\* code is emitted before the decode clause of the range wildcard.
NoContentExactBeforeDecodedRange ==
    (/\ Done
     /\ responses[name204] = responseWith({})
     /\ HasValue(name2XX)
     /\ responses[name2XX].Content # {}
     /\ \A c \in responses[name2XX].Content : InFamily(c)) =>
        LET cs == Clauses
        IN  \A i, j \in 1..Len(cs) :
                (/\ KeyOfClause(cs[i]) = name204 /\ ~IsDecodeClause(cs[i])
                 /\ KeyOfClause(cs[j]) = name2XX /\ IsDecodeClause(cs[j])) => i < j

----------------------------------------------------------------------------
(* C4 *)

\* Status codes and Content-Type headers a response is read with; the headers
\* hold every subset of the substrings "json", "yaml" and "xml".
RuntimeStatusCodes == {200, 204, 404}

RuntimeHeaders ==
    { <<"t", "e", "x", "t", "/", "p", "l", "a", "i", "n">>, <<"a", "p", "p", "l", "i", "c", "a", "t", "i", "o", "n", "/", "j", "s", "o", "n">>, <<"t", "e", "x", "t", "/", "y", "a", "m", "l">>, <<"a", "p", "p", "l", "i", "c", "a", "t", "i", "o", "n", "/", "x", "m", "l">>,
      <<"a", "p", "p", "l", "i", "c", "a", "t", "i", "o", "n", "/", "j", "s", "o", "n", "+", "x", "m", "l">>, <<"a", "p", "p", "l", "i", "c", "a", "t", "i", "o", "n", "/", "j", "s", "o", "n", "+", "y", "a", "m", "l">>, <<"a", "p", "p", "l", "i", "c", "a", "t", "i", "o", "n", "/", "y", "a", "m", "l", "+", "x", "m", "l">>,
      <<"a", "p", "p", "l", "i", "c", "a", "t", "i", "o", "n", "/", "j", "s", "o", "n", "+", "y", "a", "m", "l", "+", "x", "m", "l">> }

\* The clause that fires: the first whose condition is true (0 if none is).
FiredClause(cs, s, header) ==
    IF \E k \in 1..Len(cs) : EvalCond(cs[k].cond, s, header)
    THEN CHOOSE k \in 1..Len(cs) :
            /\ EvalCond(cs[k].cond, s, header)
            /\ \A m \in 1..(k - 1) : ~EvalCond(cs[m].cond, s, header)
    ELSE 0

\* C4: whenever the condition of a decode clause of an exact status code is
\* true, the clause that fires is a decode clause of that same exact code.
ExactDecodeClauseIsNotMasked ==
    Done =>
        LET cs == Clauses
        IN  \A s \in RuntimeStatusCodes, h \in RuntimeHeaders, i \in 1..Len(cs) :
                (/\ IsDecodeClause(cs[i])
                 /\ IsExactCond(StatusCondOf(cs[i].cond))
                 /\ EvalCond(cs[i].cond, s, h)) =>
                    LET f == cs[FiredClause(cs, s, h)]
                    IN  /\ IsDecodeClause(f)
                        /\ IsExactCond(StatusCondOf(f.cond))
                        /\ ExactCode(StatusCondOf(f.cond)) = ExactCode(StatusCondOf(cs[i].cond))

----------------------------------------------------------------------------
(* C5 *)

\* C5: no two clauses of a fragment have the same condition text.
NoTwoClausesShareACondition ==
    Done =>
        LET cs == Clauses
        IN  \A i, j \in 1..Len(cs) : cs[i].cond = cs[j].cond => i = j

\* Two type definitions of one response key, for two content types of one
\* family, collapsed into the single clause of that key and family.
SameFamilyRecordsCollapsed ==
    /\ Done
    /\ \E a, b \in Records :
        /\ Decodable(a) /\ Decodable(b)
        /\ a.ResponseName = b.ResponseName
        /\ a.ContentTypeName # b.ContentTypeName
        /\ FamilyName(a.ContentTypeName) = FamilyName(b.ContentTypeName)
    /\ Len(Clauses) = 1

----------------------------------------------------------------------------
(* C6 *)

\* The type definition yields no clause: its response is missing or has a nil
\* value, or the response has content types and the type is the untyped
\* sentinel or every content type is one of a family other than its own.
FilteredOut(td) ==
    \/ ~responses[td.ResponseName].ok
    \/ responses[td.ResponseName].nilValue
    \/ /\ responses[td.ResponseName].Content # {}
       /\ \/ td.TypeName = untypedSentinel
          \/ \A c \in responses[td.ResponseName].Content :
                InFamily(c) /\ c # td.ContentTypeName

\* C6: the result is the empty string when there is no type definition and
\* when every type definition is filtered out, and a result that is not empty
\* is a switch with at least one case clause.
EmptyFragmentIffNoClause ==
    Done =>
        /\ (\A td \in Records : FilteredOut(td)) => result = <<>>
        /\ result # <<>> => (HasPrefix(result, <<"s", "w", "i", "t", "c", "h", " ", "{", "\n">>) /\ Len(Clauses) >= 1)

\* Type definitions were given and every one of them was filtered out.
EveryRecordFilteredOut ==
    /\ Done
    /\ Len(typeDefinitions) = MaxRecords
    /\ \A td \in Records : FilteredOut(td)
    /\ \E td \in Records : HasValue(td.ResponseName) /\ td.TypeName = untypedSentinel
    /\ \E td \in Records : HasValue(td.ResponseName) /\ td.TypeName # untypedSentinel
    /\ result = <<>>

----------------------------------------------------------------------------
(* C8 *)

\* C8: the fragment has a decode clause of family F for response key K exactly
\* when some type definition of K is for a content type of the response that
\* belongs to F, and its type is not the untyped sentinel; a decode clause
\* calls the decoder its condition tests the header for.
DecodeClauseIffDecodableRecord ==
    Done =>
        LET cs == Clauses
        IN  /\ \A i \in 1..Len(cs) :
                IsDecodeClause(cs[i]) =>
                    /\ IsHandledCond(cs[i].cond)
                    /\ \E td \in Records :
                        /\ td.ResponseName = KeyOfClause(cs[i])
                        /\ Decodable(td)
                        /\ FamilyName(td.ContentTypeName) = DecoderOfCond(cs[i].cond)
                    /\ \A d \in Decoders :
                        Contains(cs[i].body, d \o <<".", "U", "n", "m", "a", "r", "s", "h", "a", "l", "(">>)
                            <=> d = DecoderOfCond(cs[i].cond)
            /\ \A td \in Records :
                Decodable(td) =>
                    \E i \in 1..Len(cs) :
                        /\ IsDecodeClause(cs[i])
                        /\ IsHandledCond(cs[i].cond)
                        /\ DecoderOfCond(cs[i].cond) = FamilyName(td.ContentTypeName)
                        /\ KeyOfClause(cs[i]) = td.ResponseName
            /\ \A i \in 1..Len(cs) : IsHandledCond(cs[i].cond) => IsDecodeClause(cs[i])

\* An untyped type definition was left out beside a decoded one of another
\* family.
UntypedLeftOutBesideDecoded ==
    /\ Done
    /\ \E td \in Records :
        /\ HasValue(td.ResponseName)
        /\ td.ContentTypeName \in responses[td.ResponseName].Content
        /\ td.TypeName = untypedSentinel
    /\ \E td \in Records : Decodable(td) /\ FamilyName(td.ContentTypeName) = yaml
    /\ \E i \in 1..Len(Clauses) : IsDecodeClause(Clauses[i])

----------------------------------------------------------------------------
(* C9 *)

\* C9: every type definition whose response declares a content type outside
\* the three families gets an unhandled clause of its response key whose body
\* is only the "unsupported" comment, whatever its type.
UnsupportedContentGetsAClause ==
    Done =>
        LET cs == Clauses
        IN  \A td \in Records :
                (/\ HasValue(td.ResponseName)
                 /\ \E c \in responses[td.ResponseName].Content : ~InFamily(c)) =>
                    \E i \in 1..Len(cs) :
                        /\ ~IsHandledCond(cs[i].cond)
                        /\ KeyOfClause(cs[i]) = td.ResponseName
                        /\ \E c \in responses[td.ResponseName].Content :
                            /\ ~InFamily(c)
                            /\ cs[i].body = <<"/", "/", " ", "C", "o", "n", "t", "e", "n", "t", "-", "t", "y", "p", "e", " ", "(">> \o c \o <<")", " ", "u", "n", "s", "u", "p", "p", "o", "r", "t", "e", "d", "\n">>

----------------------------------------------------------------------------
(* C10 *)

IndexPermutations(n) == {p \in [1..n -> 1..n] : \A i, j \in 1..n : p[i] = p[j] => i = j}

Permute(tds, p) == [k \in 1..Len(tds) |-> tds[p[k]]]

Reorderings(tds) == {Permute(tds, p) : p \in IndexPermutations(Len(tds))}

ConditionsOf(cs) == [k \in 1..Len(cs) |-> cs[k].cond]

\* The clauses of a fragment that do not decode, in order.
RECURSIVE Unhandled(_)
Unhandled(cs) ==
    IF cs = <<>> THEN <<>>
    ELSE (IF IsDecodeClause(Head(cs)) THEN <<>> ELSE <<Head(cs)>>) \o Unhandled(Tail(cs))

\* Two type definitions that yield the decode clause of one response key and
\* family differ in their types.
TypesConflict ==
    \E a, b \in Records :
        /\ Decodable(a) /\ Decodable(b)
        /\ a.ResponseName = b.ResponseName
        /\ FamilyName(a.ContentTypeName) = FamilyName(b.ContentTypeName)
        /\ (a.TypeName # b.TypeName \/ a.TypeDecl # b.TypeDecl)

\* C10 as stated: the fragment is the same for every ordering of the type
\* definitions.
FragmentIsOrderIndependent ==
    Done => \A tds \in Reorderings(typeDefinitions) :
                genResponseUnmarshal(responses, tds) = result

\* C10 as amended: for every ordering of the type definitions the conditions
\* of the clauses and the clauses that do not decode are the same, and the
\* whole fragment is the same when no two type definitions that yield the
\* decode clause of one response key and family differ in their types.
ConditionsAreOrderIndependent ==
    Done =>
        LET mine == Clauses
            conflict == TypesConflict
        IN  \A tds \in Reorderings(typeDefinitions) :
                LET other == genResponseUnmarshal(responses, tds)
                    theirs == ParseClauses(other)
                IN  /\ ConditionsOf(theirs) = ConditionsOf(mine)
                    /\ Unhandled(theirs) = Unhandled(mine)
                    /\ ~conflict => other = result

\* Type definitions of different types collapsed into one decode clause
\* beside an unhandled clause.
ConflictingRecordsCollapsed ==
    /\ Done
    /\ TypesConflict
    /\ \E i \in 1..Len(Clauses) : IsDecodeClause(Clauses[i])
    /\ \E i \in 1..Len(Clauses) : ~IsDecodeClause(Clauses[i])

----------------------------------------------------------------------------
(* C7 *)

ConditionNames ==
    {rangeNames[i] : i \in 1..Len(rangeNames)}
        \cup {nameDefault, <<"1", "0", "0">>, <<"2", "0", "0">>, name204, <<"4", "0", "4">>, <<"5", "0", "0">>, <<"5", "9", "9">>}

StatusCodes == 100..599

\* Before a call getConditionOfResponseName("rsp.StatusCode", name); the
\* response read later has any status code.
InitCondition ==
    /\ condResponseName \in ConditionNames
    /\ statusCode \in StatusCodes
    /\ condition = <<>>
    /\ pc = "call"
    /\ responses = [n \in ResponseNames |-> absentResponse]
    /\ typeDefinitions = <<>>
    /\ idx = 1
    /\ handledCaseClauses = EmptyMap
    /\ unhandledCaseClauses = EmptyMap
    /\ result = <<>>

\* Lines 249-258.
GetCondition ==
    /\ pc = "call"
    /\ condition' = getConditionOfResponseName(statusCodeVar, condResponseName)
    /\ pc' = "done"
    /\ UNCHANGED <<inputs, idx, handledCaseClauses, unhandledCaseClauses, result,
                   condResponseName, statusCode>>

NextCondition == GetCondition

SpecCondition == InitCondition /\ [][NextCondition]_vars

IsRangeName(k) ==
    /\ Len(k) = 3
    /\ k[1] \in {"1", "2", "3", "4", "5"}
    /\ k[2] = "X"
    /\ k[3] = "X"

\* C7: the condition of "default" is true for every status code, that of "dXX"
\* is true exactly when the status code divided by 100 is d, and that of an
\* exact code is true exactly when the status code is that code.
ConditionMatchesResponseName ==
    (Done /\ condResponseName # <<>>) =>
        (EvalStatusCond(condition, statusCode) <=>
            IF condResponseName = nameDefault THEN TRUE
            ELSE IF IsRangeName(condResponseName)
                 THEN statusCode \div 100 = ParseInt(<<condResponseName[1]>>)
                 ELSE statusCode = ParseInt(condResponseName))

\* The condition of a range wildcard was found true for a code of its range.
RangeConditionTrue ==
    /\ Done
    /\ condResponseName = name2XX
    /\ statusCode = 204
    /\ EvalStatusCond(condition, statusCode)

====
